---- MODULE Spec2Model ----
(***************************************************************************)
(* Model of the story feed server of porfirevich:                          *)
(*   srv/controllers/StoryController.ts  (all, one, create, like,          *)
(*   violation, dislike, edit, postcard) over the Story / User / Like /    *)
(*   Violation repositories.                                               *)
(*                                                                         *)
(* A handler is one atomic action: its store reads, its awaited writes and *)
(* its response.  A write the handler starts without await (one, postcard, *)
(* dislike) is put in `pending` and applied by the store in a later step,  *)
(* Commit: the handler has answered by then.  Requests are independent;    *)
(* the store is the only state.                                            *)
(*                                                                         *)
(* The handlers are checked in slices that share their definitions:        *)
(*   Spec        a story's life: create, one, postcard, edit               *)
(*   SpecEdit    create and edit                                           *)
(*   SpecFeed    the listing over a small table, every query parameter     *)
(*   SpecFlood   the duplicate heuristic up to the ban, and the listing    *)
(*   SpecEngage  like and dislike                                          *)
(*   SpecReport  violation                                                 *)
(*   SpecOrder   the listing's order over stories with views               *)
(*   SpecOwner   the isOwner middleware                                    *)
(* and, with two requests followed from await to await (`calls`):          *)
(*   SpecLikeRace    two like calls interleaved                            *)
(*   SpecCreateRace  two create calls interleaved                          *)
(* like, dislike and violation write only the Like and Violation tables,   *)
(* which no other handler reads; they read the Story and User tables only  *)
(* for the existence of a row, and no handler deletes a row.               *)
(*                                                                         *)
(* A story's description is carried like its content and is left out.      *)
(***************************************************************************)
EXTENDS Integers, Sequences, FiniteSets, Bags, TLC

VARIABLES
    now,        \* the server clock (new Date(), CreateDateColumn)
    users,      \* User repository: id -> [isBanned, isSuperuser]
    stories,    \* Story repository: sequence of rows, the id is the index
    likes,      \* Like repository: bag of rows <<userId, storyId>>
    violations, \* Violation repository: sequence of [storyId, userId]
    pending,    \* store writes started without await, not yet applied
    likeOk,     \* history: <<userId, storyId>> -> like calls answered 200
    unlikeOk,   \* history: <<userId, storyId>> -> dislike calls answered 200
    response,   \* what the last handler sent: res.send / res.json / res.status
    calls       \* requests in flight whose handler is followed await by await

vars == <<now, users, stories, likes, violations, pending, likeOk, unlikeOk,
          response, calls>>

----------------------------------------------------------------------------
(* Bounds of the model *)

MaxTime == 1          \* the clock runs 0..MaxTime
MaxStories == 1       \* rows the Story table may hold under Spec
MaxViews == 1         \* one/postcard stop counting views here
MaxLikeCalls == 2     \* like calls answered 200 per pair
MaxViolations == 2    \* rows the Violation table may hold
MaxPending == 1       \* un-awaited store writes in flight at once

(* Program constants *)

BAN_THRESHOLD == 20   \* create: `exist < 20`
LIMIT_CEIL == 51      \* all: `req.query.limit < 51`
DEFAULT_LIMIT == 10   \* all: `: 10`

----------------------------------------------------------------------------
(* Callers and request values *)

NoUser == "none"                 \* req.user undefined (the anonymous strategy)
Ghost == "ghost"                 \* an authenticated id with no User row
UserIds == {"u1", "u2"}          \* ids that have a User row
Callers == UserIds \cup {NoUser, Ghost}

\* An optional value (a query parameter, a joined relation, a Number()):
\* <<>> when it is missing, <<v>> when it is v.
Absent == <<>>
Sent(v) == <<v>>
NaN == <<>>                      \* Number(undefined)

Contents == {"a", ""}       \* request bodies' content; "" is invalid

----------------------------------------------------------------------------
(* The Story entity *)

\* class-validator's validate(story): the entity's decorators reject an
\* empty content.
Valid(content) == content # ""

\* new Story() with the column defaults of the entity.
StoryDefaults ==
    [isPublic |-> TRUE, isDeleted |-> FALSE, viewsCount |-> 0, likesCount |-> 0]

\* The row repository.save(story) inserts for the story built by create:
\* the generated id, the creation date, the generated edit token.
NewStory(id, userId, content, isDeleted) ==
    [id |-> id, userId |-> userId, content |-> content,
     createdAt |-> now, editId |-> id,
     isPublic |-> StoryDefaults.isPublic, isDeleted |-> isDeleted,
     viewsCount |-> StoryDefaults.viewsCount,
     likesCount |-> StoryDefaults.likesCount,
     postcard |-> FALSE]

\* Two requests whose handlers are followed from await to await.
CallIds == {1, 2}

\* A request that has not arrived.
IdleCall ==
    [op |-> "none", pc |-> "idle", caller |-> NoUser, id |-> 0, content |-> "",
     exist |-> 0, status |-> 0]

StoryIds == 1..Len(stories)

\* userRepository.findOne(userId): the row, if there is one.
HasUser(userId) == userId \in DOMAIN users

----------------------------------------------------------------------------
Init ==
    /\ now = 0
    /\ users = [u \in UserIds |->
                  [isBanned |-> FALSE, isSuperuser |-> (u = "u2")]]
    /\ stories = <<>>
    /\ likes = EmptyBag
    /\ violations = <<>>
    /\ pending = {}
    /\ likeOk = <<>>
    /\ unlikeOk = <<>>
    /\ response = [op |-> "init"]
    /\ calls = [k \in CallIds |-> IdleCall]

\* Time passes.
Tick ==
    /\ now < MaxTime
    /\ now' = now + 1
    /\ UNCHANGED <<users, stories, likes, violations, pending, likeOk,
                   unlikeOk, response, calls>>

----------------------------------------------------------------------------
(* create *)

\* create's duplicate count: the author's public stories with this content.
ExistCount(userId, content) ==
    Cardinality({i \in StoryIds :
        /\ stories[i].userId = userId
        /\ stories[i].content = content
        /\ stories[i].isPublic})

\* GuardDecision with `exist <= 20`.
GuardDecision_OffByOne(exist) ==
    IF exist = 0 THEN "save"
    ELSE IF exist <= BAN_THRESHOLD THEN "hide"
    ELSE "ban"

\* The duplicate heuristic on the count: "save", "hide" or "ban".
GuardDecision(exist) ==
    IF exist = 0 THEN "save"
    ELSE IF exist < BAN_THRESHOLD THEN "hide"
    ELSE "ban"

\* The two saves of create around the postcard rendering; rendered is
\* whether postcard(newStory) resolved.
SaveNewStory(userId, content, isDeleted, rendered, cap) ==
    /\ Len(stories) < cap
    /\ LET id == Len(stories) + 1
           row == NewStory(id, userId, content, isDeleted)
       IN /\ stories' = Append(stories,
                               [row EXCEPT !.postcard = rendered])
          /\ response' = [op |-> "create", caller |-> userId,
                          content |-> content,
                          status |-> IF rendered THEN 200 ELSE 500,
                          id |-> IF rendered THEN id ELSE 0]
    /\ UNCHANGED users

\* SendUnsaved answering with an error.
SendUnsaved_Error(caller, content) ==
    response' = [op |-> "create", caller |-> caller, content |-> content,
                 status |-> 403, id |-> 0]

\* res.send(story) for a story that was never saved: it has no id.
SendUnsaved(caller, content) ==
    response' = [op |-> "create", caller |-> caller, content |-> content,
                 status |-> 200, id |-> 0]

Create(caller, content, rendered, cap) ==
    /\ IF caller # NoUser
       THEN IF ~HasUser(caller)
            THEN /\ response' = [op |-> "create", caller |-> caller,
                                 content |-> content, status |-> 400, id |-> 0]
                 /\ UNCHANGED <<users, stories>>
            ELSE IF users[caller].isBanned
            THEN /\ SendUnsaved(caller, content)
                 /\ UNCHANGED <<users, stories>>
            ELSE IF ~Valid(content)
            THEN /\ response' = [op |-> "create", caller |-> caller,
                                 content |-> content, status |-> 400, id |-> 0]
                 /\ UNCHANGED <<users, stories>>
            ELSE LET decision == GuardDecision(ExistCount(caller, content))
                 IN IF decision = "ban"
                    THEN /\ users' = [users EXCEPT ![caller].isBanned = TRUE]
                         /\ SendUnsaved(caller, content)
                         /\ UNCHANGED stories
                    ELSE SaveNewStory(caller, content, decision = "hide",
                                      rendered, cap)
       ELSE SaveNewStory(NoUser, content, FALSE, rendered, cap)
    /\ UNCHANGED <<now, likes, violations, pending, likeOk, unlikeOk, calls>>

----------------------------------------------------------------------------
(* all: the feed listing *)

\* FeedMatches without `u.isBanned = :isBanned`.
FeedMatches_NoBanFilter(beforeDate) ==
    {i \in StoryIds :
        /\ stories[i].isPublic
        /\ ~stories[i].isDeleted
        /\ stories[i].createdAt < beforeDate
        /\ HasUser(stories[i].userId)}

\* FeedMatches with a left join: a story without an author is kept.
FeedMatches_LeftJoin(beforeDate) ==
    {i \in StoryIds :
        /\ stories[i].isPublic
        /\ ~stories[i].isDeleted
        /\ stories[i].createdAt < beforeDate
        /\ HasUser(stories[i].userId) => ~users[stories[i].userId].isBanned}

\* query(rep, beforeDate): the rows the where-clause and the inner join on
\* the author keep.
FeedMatches(beforeDate) ==
    {i \in StoryIds :
        /\ stories[i].isPublic
        /\ ~stories[i].isDeleted
        /\ stories[i].createdAt < beforeDate
        /\ HasUser(stories[i].userId)
        /\ ~users[stories[i].userId].isBanned}

\* The columns of `select`, plus u.isBanned of the joined author.
ProjectFeed(row) ==
    [id |-> row.id, content |-> row.content, createdAt |-> row.createdAt,
     viewsCount |-> row.viewsCount, postcard |-> row.postcard,
     userId |-> row.userId, likesCount |-> row.likesCount,
     user |-> [isBanned |-> users[row.userId].isBanned]]

\* req.query.limit && req.query.limit < 51 ? req.query.limit : 10
\* (a query value that was sent is a non-empty string, which is truthy)
EffectiveLimit(limit) ==
    IF limit # Absent /\ limit[1] < LIMIT_CEIL THEN limit[1] ELSE DEFAULT_LIMIT

\* Number(req.query.offset) + Number(req.query.limit)
Loaded(offset, limit) ==
    IF offset = Absent \/ limit = Absent THEN NaN
    ELSE Sent(offset[1] + limit[1])

\* itemCount > loaded
HasMore(itemCount, loaded) == loaded # NaN /\ itemCount > loaded[1]

\* orderBy('story.createdAt', 'DESC'), then one orderBy call per key sent:
\* each call replaces the ordering, so the last key is the one in force.
OrderKey(orderBy) ==
    IF orderBy = Absent \/ orderBy = <<>> THEN "createdAt"
    ELSE orderBy[Len(orderBy)]

RECURSIVE Perms(_)
Perms(S) ==
    IF S = {} THEN {<<>>}
    ELSE UNION {{<<x>> \o p : p \in Perms(S \ {x})} : x \in S}

\* The orders the store may return the rows in: descending by the key, ties
\* in any order; any order at all for random().
Sorted(ids, key) ==
    {p \in Perms(ids) :
        \/ key = "RAND()"
        \/ \A i, j \in 1..Len(p) :
               i < j => stories[p[i]][key] >= stories[p[j]][key]}

Min(a, b) == IF a < b THEN a ELSE b

\* take(limit).skip(offset) on the ordered rows.  A take below 1 is not a
\* page size: the store returns no row or every row.
PageOf(rows, take, skip) ==
    LET from == IF skip = Absent THEN 0 ELSE skip[1]
    IN IF take >= 1
       THEN {SubSeq(rows, from + 1, Min(from + take, Len(rows)))}
       ELSE {<<>>, SubSeq(rows, from + 1, Len(rows))}

All(beforeDateQ, limit, offset, orderBy) ==
    LET beforeDate == IF beforeDateQ # Absent THEN beforeDateQ[1] ELSE now
        take == EffectiveLimit(limit)
        matches == FeedMatches(beforeDate)
        itemCount == Cardinality(matches)
    IN /\ \E rows \in Sorted(matches, OrderKey(orderBy)) :
          \E page \in PageOf(rows, take, offset) :
             response' = [op |-> "all", status |-> 200,
                          hasMore |-> HasMore(itemCount, Loaded(offset, limit)),
                          count |-> itemCount,
                          data |-> [k \in 1..Len(page) |->
                                       ProjectFeed(stories[page[k]])],
                          beforeDate |-> beforeDate,
                          limit |-> limit, take |-> take, skip |-> offset,
                          orderBy |-> orderBy]
       /\ UNCHANGED <<now, users, stories, likes, violations, pending, likeOk,
                      unlikeOk, calls>>

----------------------------------------------------------------------------
(* Writes started without await: one and postcard call repository.save(story)
   and dislike calls likeReposytory.remove(existLike) without awaiting the
   promise, so the handler answers first and the store applies the write
   afterwards. *)

ViewsWrite(id, value) == [kind |-> "views", id |-> id, value |-> value]
LikeRemoval(userId, storyId) ==
    [kind |-> "unlike", userId |-> userId, storyId |-> storyId]

\* The store applies one write in flight.
Commit(w) ==
    /\ w \in pending
    /\ pending' = pending \ {w}
    /\ IF w.kind = "views"
       THEN /\ stories' = [stories EXCEPT ![w.id].viewsCount = w.value]
            /\ UNCHANGED likes
       ELSE /\ likes' = likes (-) SetToBag({<<w.userId, w.storyId>>})
            /\ UNCHANGED stories
    /\ UNCHANGED <<now, users, violations, likeOk, unlikeOk, response, calls>>

----------------------------------------------------------------------------
(* one, postcard *)

\* The columns of `select`, plus the author's columns joined for a superuser.
ProjectOne(row, isSuperuser) ==
    [id |-> row.id, content |-> row.content, createdAt |-> row.createdAt,
     viewsCount |-> row.viewsCount, postcard |-> row.postcard,
     userId |-> row.userId, likesCount |-> row.likesCount,
     user |-> IF isSuperuser /\ HasUser(row.userId)
              THEN Sent([id |-> row.userId,
                         isBanned |-> users[row.userId].isBanned])
              ELSE Absent]

One(reqUser, id) ==
    /\ IF id \in StoryIds
       THEN /\ stories[id].viewsCount < MaxViews
            /\ Cardinality(pending \cup {ViewsWrite(id, stories[id].viewsCount + 1)})
                   <= MaxPending
            /\ LET isSuperuser == HasUser(reqUser) /\ users[reqUser].isSuperuser
                   story == [ProjectOne(stories[id], isSuperuser)
                               EXCEPT !.viewsCount = @ + 1]
               IN /\ pending' = pending \cup {ViewsWrite(id, story.viewsCount)}
                  /\ response' = [op |-> "one", status |-> 200, id |-> id,
                                  body |-> story]
       ELSE /\ response' = [op |-> "one", status |-> 404, id |-> id]
            /\ UNCHANGED pending
    /\ UNCHANGED <<now, users, stories, likes, violations, likeOk, unlikeOk,
                   calls>>

\* The handler sends nothing when the story is found.
Postcard(id) ==
    /\ IF id \in StoryIds
       THEN /\ stories[id].viewsCount < MaxViews
            /\ Cardinality(pending \cup {ViewsWrite(id, stories[id].viewsCount + 1)})
                   <= MaxPending
            /\ pending' = pending \cup
                            {ViewsWrite(id, stories[id].viewsCount + 1)}
            /\ response' = [op |-> "postcard", status |-> 0, id |-> id]
       ELSE /\ response' = [op |-> "postcard", status |-> 404, id |-> id]
            /\ UNCHANGED pending
    /\ UNCHANGED <<now, users, stories, likes, violations, likeOk, unlikeOk,
                   calls>>

----------------------------------------------------------------------------
(* edit *)

\* ParamsOf that leaves editId among the params.
ParamsOf_KeepEditId(body) == body

\* const { editId, ...params } = req.body
ParamsOf(body) == [k \in DOMAIN body \ {"editId"} |-> body[k]]

\* for (const p in params) if (p in story) story[p] = params[p]
ApplyPatch(story, params) ==
    [k \in DOMAIN story |-> IF k \in DOMAIN params THEN params[k] ELSE story[k]]

\* const isSuperuser = user && user.isSuperuser
EditIsSuperuser(caller) == HasUser(caller) /\ users[caller].isSuperuser

\* const isOwner = user && story.userId !== user.id
EditIsOwner(caller, story) == HasUser(caller) /\ story.userId # caller

\* if (!user && !isSuperuser && !isOwner) -> 403
EditForbidden(caller, story) ==
    /\ ~HasUser(caller)
    /\ ~EditIsSuperuser(caller)
    /\ ~EditIsOwner(caller, story)

Edit(caller, id, body) ==
    /\ IF id \notin StoryIds
       THEN /\ response' = [op |-> "edit", status |-> 404, id |-> id,
                            caller |-> caller, keys |-> DOMAIN body]
            /\ UNCHANGED stories
       ELSE IF EditForbidden(caller, stories[id])
       THEN /\ response' = [op |-> "edit", status |-> 403, id |-> id,
                            caller |-> caller, keys |-> DOMAIN body]
            /\ UNCHANGED stories
       ELSE LET story == ApplyPatch(stories[id], ParamsOf(body))
            IN IF ~Valid(story.content)
               THEN /\ response' = [op |-> "edit", status |-> 400, id |-> id,
                                    caller |-> caller, keys |-> DOMAIN body]
                    /\ UNCHANGED stories
               ELSE /\ stories' = [stories EXCEPT ![id] = story]
                    /\ response' = [op |-> "edit", status |-> 200, id |-> id,
                                    caller |-> caller, keys |-> DOMAIN body]
    /\ UNCHANGED <<now, users, likes, violations, pending, likeOk, unlikeOk,
                   calls>>

----------------------------------------------------------------------------
(* like, dislike, violation.  The caller of like and dislike is an
   authenticated id (req.user.id), with or without a User row. *)

\* A history counter: calls answered 200 for the pair so far.
Count(h, pair) == IF pair \in DOMAIN h THEN h[pair] ELSE 0
Bump(h, pair) ==
    [q \in DOMAIN h \cup {pair} |-> IF q = pair THEN Count(h, pair) + 1 ELSE h[q]]

\* ExistLike that never finds the row.
ExistLike_Never(userId, storyId) == FALSE

\* likeReposytory.findOne({ userId, storyId })
ExistLike(userId, storyId) == BagIn(<<userId, storyId>>, likes)

Like(caller, id) ==
    /\ IF ExistLike(caller, id)
       THEN /\ response' = [op |-> "like", status |-> 409, id |-> id,
                            caller |-> caller]
            /\ UNCHANGED <<likes, likeOk>>
       ELSE IF id \notin StoryIds \/ ~HasUser(caller)
       THEN /\ response' = [op |-> "like", status |-> 500, id |-> id,
                            caller |-> caller]
            /\ UNCHANGED <<likes, likeOk>>
       ELSE /\ Count(likeOk, <<caller, id>>) < MaxLikeCalls
            /\ likes' = likes (+) SetToBag({<<caller, id>>})
            /\ likeOk' = Bump(likeOk, <<caller, id>>)
            /\ response' = [op |-> "like", status |-> 200, id |-> id,
                            caller |-> caller]
    /\ UNCHANGED <<now, users, stories, violations, pending, unlikeOk, calls>>

Dislike(caller, id) ==
    /\ IF ~ExistLike(caller, id)
       THEN /\ response' = [op |-> "dislike", status |-> 500, id |-> id,
                            caller |-> caller]
            /\ UNCHANGED <<pending, unlikeOk>>
       ELSE /\ Count(unlikeOk, <<caller, id>>) <= Count(likeOk, <<caller, id>>)
            /\ Cardinality(pending \cup {LikeRemoval(caller, id)}) <= MaxPending
            /\ pending' = pending \cup {LikeRemoval(caller, id)}
            /\ unlikeOk' = Bump(unlikeOk, <<caller, id>>)
            /\ response' = [op |-> "dislike", status |-> 200, id |-> id,
                            caller |-> caller]
    /\ UNCHANGED <<now, users, stories, likes, violations, likeOk, calls>>

Violation(caller, id) ==
    /\ IF id \notin StoryIds
       THEN /\ response' = [op |-> "violation", status |-> 500, id |-> id,
                            caller |-> caller]
            /\ UNCHANGED violations
       ELSE /\ Len(violations) < MaxViolations
            /\ violations' = Append(violations,
                   [storyId |-> id,
                    userId |-> IF caller # NoUser /\ HasUser(caller)
                               THEN caller ELSE NoUser])
            /\ response' = [op |-> "violation", status |-> 200, id |-> id,
                            caller |-> caller]
    /\ UNCHANGED <<now, users, stories, likes, pending, likeOk, unlikeOk,
                   calls>>

----------------------------------------------------------------------------
(* A story's life.  The router mounts one and postcard without passport, so
   req.user is undefined there. *)

\* Request bodies of PATCH /:id
Patches ==
    { [content |-> ""], [viewsCount |-> 0],
      [isPublic |-> FALSE], [editId |-> 0, bogus |-> 1] }

Next ==
    \/ \E c \in Callers, t \in Contents, r \in BOOLEAN :
           Create(c, t, r, MaxStories)
    \/ \E id \in 1..(MaxStories + 1) : One(NoUser, id)
    \/ \E id \in 1..(MaxStories + 1) : Postcard(id)
    \/ \E w \in pending : Commit(w)
    \/ \E c \in Callers, id \in 1..(MaxStories + 1), b \in Patches :
           Edit(c, id, b)

Spec == Init /\ [][Next]_vars

\* create and edit alone: every caller, every request body.
NextEdit ==
    \/ \E c \in Callers, t \in Contents, r \in BOOLEAN :
           Create(c, t, r, MaxStories)
    \/ \E c \in Callers, id \in 1..(MaxStories + 1), b \in Patches :
           Edit(c, id, b)

SpecEdit == Init /\ [][NextEdit]_vars

----------------------------------------------------------------------------
(* The feed listing over a small table: every query parameter. *)

BeforeDates == {Absent} \cup {Sent(t) : t \in 1..MaxTime}
Limits == {Absent} \cup {Sent(l) : l \in {-1, 0, 1, 50, 51}}
Offsets == {Absent} \cup {Sent(o) : o \in {0, 1}}

NextFeed ==
    \/ Tick
    \/ \E c \in UserIds \cup {NoUser} : Create(c, "a", TRUE, MaxStories + 1)
    \/ \E d \in BeforeDates, l \in Limits, o \in Offsets :
           All(d, l, o, Absent)

SpecFeed == Init /\ [][NextFeed]_vars

----------------------------------------------------------------------------
(* The feed under a flood of duplicates: one author submits the same content
   until the ban.  Other authors submit, stories are unpublished and the
   clock ticks only among the first MaxStories rows. *)

Flooder == "u1"
FloodCap == BAN_THRESHOLD + MaxStories

NextFlood ==
    \/ Len(stories) <= MaxStories /\ Tick
    \/ \E t \in {"a", ""} : Create(Flooder, t, TRUE, FloodCap)
    \/ \E c \in {"u2", NoUser} : Create(c, "a", TRUE, MaxStories)
    \/ \E id \in 1..MaxStories : Edit("u2", id, [isPublic |-> FALSE])
    \/ \E d \in BeforeDates : All(d, Absent, Absent, Absent)

SpecFlood == Init /\ [][NextFlood]_vars

----------------------------------------------------------------------------
(* Likes on the stories of the table, by a caller with a User row and a
   caller without one, on ids that exist and an id that does not. *)

Likers == {"u1", Ghost}

NextEngage ==
    \/ \E c \in {"u1", NoUser} : Create(c, "a", TRUE, MaxStories)
    \/ \E c \in Likers, id \in 1..(MaxStories + 1) : Like(c, id)
    \/ \E c \in Likers, id \in 1..(MaxStories + 1) : Dislike(c, id)
    \/ \E w \in pending : Commit(w)

SpecEngage == Init /\ [][NextEngage]_vars

----------------------------------------------------------------------------
(* Reports on the stories of the table. *)

NextReport ==
    \/ \E c \in {"u1", NoUser}, r \in BOOLEAN : Create(c, "a", r, MaxStories)
    \/ \E c \in Callers, id \in 1..(MaxStories + 1) : Violation(c, id)

SpecReport == Init /\ [][NextReport]_vars

----------------------------------------------------------------------------
(* like, await by await: the pre-check, the two lookups and the insert are
   separate store accesses, and another request may run between them. *)

\* UniqueLike without the constraint: the insert is always taken.
UniqueLike_NoConstraint(userId, storyId) == TRUE

\* The uniqueness constraint of the Like table on (userId, storyId): the
\* store takes an insert only when the pair has no row.
UniqueLike(userId, storyId) == ~BagIn(<<userId, storyId>>, likes)

\* The handler has answered call k.
Answer(k, status) ==
    /\ response' = [op |-> calls[k].op, status |-> status, id |-> calls[k].id,
                    caller |-> calls[k].caller]
    /\ calls' = [calls EXCEPT ![k].pc = "done", ![k].status = status]

\* await likeReposytory.findOne({ userId, storyId })
LikeCheck(k, caller, id) ==
    /\ calls[k].pc = "idle"
    /\ IF ExistLike(caller, id)
       THEN /\ response' = [op |-> "like", status |-> 409, id |-> id,
                            caller |-> caller]
            /\ calls' = [calls EXCEPT ![k] =
                           [IdleCall EXCEPT !.op = "like", !.pc = "done",
                                            !.caller = caller, !.id = id,
                                            !.exist = 1, !.status = 409]]
       ELSE /\ calls' = [calls EXCEPT ![k] =
                           [IdleCall EXCEPT !.op = "like", !.pc = "load",
                                            !.caller = caller, !.id = id]]
            /\ UNCHANGED response
    /\ UNCHANGED <<now, users, stories, likes, violations, pending, likeOk,
                   unlikeOk>>

\* await storyRepository.findOneOrFail(storyId);
\* await userReposytory.findOneOrFail(userId)
LikeLoad(k) ==
    /\ calls[k].op = "like" /\ calls[k].pc = "load"
    /\ IF calls[k].id \notin StoryIds \/ ~HasUser(calls[k].caller)
       THEN Answer(k, 500)
       ELSE /\ calls' = [calls EXCEPT ![k].pc = "save"]
            /\ UNCHANGED response
    /\ UNCHANGED <<now, users, stories, likes, violations, pending, likeOk,
                   unlikeOk>>

\* LikeSaveStatus that answers 200 whether or not save threw.
LikeSaveStatus_Always200(inserted) == 200

\* try { await save(like); res.status(200) } catch { res.status(500) }
LikeSaveStatus(inserted) == IF inserted THEN 200 ELSE 500

\* await likeReposytory.save(like); res.status(200).send().  An insert the
\* store rejects throws, and the catch answers 500.
LikeSave(k) ==
    /\ calls[k].op = "like" /\ calls[k].pc = "save"
    /\ LET pair == <<calls[k].caller, calls[k].id>>
           inserted == UniqueLike(pair[1], pair[2])
       IN /\ Answer(k, LikeSaveStatus(inserted))
          /\ IF inserted
             THEN /\ likes' = likes (+) SetToBag({pair})
                  /\ likeOk' = Bump(likeOk, pair)
             ELSE UNCHANGED <<likes, likeOk>>
    /\ UNCHANGED <<now, users, stories, violations, pending, unlikeOk>>

NextLikeRace ==
    \/ \E c \in {"u1", NoUser}, r \in BOOLEAN : Create(c, "a", r, MaxStories)
    \/ \E k \in CallIds, c \in Likers, id \in 1..(MaxStories + 1) :
           LikeCheck(k, c, id)
    \/ \E k \in CallIds : LikeLoad(k)
    \/ \E k \in CallIds : LikeSave(k)

SpecLikeRace == Init /\ [][NextLikeRace]_vars

----------------------------------------------------------------------------
(* create, await by await: the duplicate count is one store access and the
   save a later one, and another request may run between them. *)

\* Observed that counts again when the story is saved.
Observed_AtSave(k) == ExistCount(calls[k].caller, calls[k].content)

\* `exist`: the count the handler holds since getCount() resolved.
Observed(k) == calls[k].exist

\* From the user lookup to `await ... getCount()`.  An anonymous submission
\* goes to the save with no count.
CreateCount(k, caller, content) ==
    /\ calls[k].pc = "idle"
    /\ LET call == [IdleCall EXCEPT !.op = "create", !.caller = caller,
                                    !.content = content]
       IN IF caller = NoUser
          THEN /\ calls' = [calls EXCEPT ![k] = [call EXCEPT !.pc = "save"]]
               /\ UNCHANGED response
          ELSE IF ~HasUser(caller) \/ (~users[caller].isBanned /\ ~Valid(content))
          THEN /\ response' = [op |-> "create", caller |-> caller,
                               content |-> content, status |-> 400, id |-> 0]
               /\ calls' = [calls EXCEPT ![k] =
                              [call EXCEPT !.pc = "done", !.status = 400]]
          ELSE IF users[caller].isBanned
          THEN /\ SendUnsaved(caller, content)
               /\ calls' = [calls EXCEPT ![k] =
                              [call EXCEPT !.pc = "done", !.status = 200]]
          ELSE /\ calls' = [calls EXCEPT ![k] =
                              [call EXCEPT !.pc = "save",
                                           !.exist = ExistCount(caller, content)]]
               /\ UNCHANGED response
    /\ UNCHANGED <<now, users, stories, likes, violations, pending, likeOk,
                   unlikeOk>>

\* From `if (exist)` to the response: the decision on the count held, then
\* the ban or the saves.
CreateSave(k, rendered, cap) ==
    /\ calls[k].op = "create" /\ calls[k].pc = "save"
    /\ LET caller == calls[k].caller
           content == calls[k].content
           decision == IF caller = NoUser THEN "save"
                       ELSE GuardDecision(Observed(k))
       IN IF decision = "ban"
          THEN /\ users' = [users EXCEPT ![caller].isBanned = TRUE]
               /\ SendUnsaved(caller, content)
               /\ UNCHANGED stories
          ELSE SaveNewStory(caller, content, decision = "hide", rendered, cap)
    /\ calls' = [calls EXCEPT ![k].pc = "done",
                              ![k].status = response'.status,
                              ![k].id = response'.id]
    /\ UNCHANGED <<now, likes, violations, pending, likeOk, unlikeOk>>

NextCreateRace ==
    \/ Tick
    \/ Create("u1", "a", TRUE, MaxStories)
    \/ \E k \in CallIds, c \in {"u1", NoUser}, t \in Contents :
           CreateCount(k, c, t)
    \/ \E k \in CallIds : CreateSave(k, TRUE, MaxStories + 2)

SpecCreateRace == Init /\ [][NextCreateRace]_vars

----------------------------------------------------------------------------
(* The listing's order: stories that differ in createdAt and viewsCount,
   listed under every orderBy. *)

\* req.query.orderBy, split at the commas
OrderBys ==
    { Absent, <<"viewsCount">>, <<"viewsCount", "createdAt">>,
      <<"createdAt", "viewsCount">>, <<"RAND()">> }

NextOrder ==
    \/ Tick
    \/ \E c \in UserIds : Create(c, "a", TRUE, MaxStories + 1)
    \/ \E id \in 1..(MaxStories + 1) : One(NoUser, id)
    \/ \E w \in pending : Commit(w)
    \/ \E o \in OrderBys : All(Absent, Absent, Absent, o)

SpecOrder == Init /\ [][NextOrder]_vars

----------------------------------------------------------------------------
(* The isOwner middleware, over the Story table as its model.  The caller is
   res.locals.jwtPayload.userId.  findOneOrFail(id) is called without
   relations: whether obj.user is there depends on the entity (an eager
   relation or not), which the middleware does not decide. *)

\* if (obj && obj.user && obj.user.uid === userId)
OwnerMatches(userId, id, withUser) ==
    /\ id \in StoryIds
    /\ withUser /\ HasUser(stories[id].userId)
    /\ stories[id].userId = userId

\* sends counts the calls of res.status(401).send(): one in the catch when
\* the lookup fails, one in the else branch, which runs after the catch too.
IsOwner(userId, id, withUser) ==
    /\ LET inCatch == IF id \in StoryIds THEN 0 ELSE 1
           matches == OwnerMatches(userId, id, withUser)
       IN response' = [op |-> "isOwner", id |-> id, caller |-> userId,
                       next |-> matches,
                       sends |-> inCatch + (IF matches THEN 0 ELSE 1)]
    /\ UNCHANGED <<now, users, stories, likes, violations, pending, likeOk,
                   unlikeOk, calls>>

NextOwner ==
    \/ \E c \in UserIds \cup {NoUser} : Create(c, "a", TRUE, MaxStories + 1)
    \/ \E c \in UserIds \cup {Ghost}, id \in 1..(MaxStories + 2),
          withUser \in BOOLEAN : IsOwner(c, id, withUser)

SpecOwner == Init /\ [][NextOwner]_vars

----------------------------------------------------------------------------
(* Properties *)

\* The stored row of an item of a feed response.
RowOf(item) == stories[item.id]

\* The rows a user authored, in id order, as a set of ids.
RowsBy(userId) == {i \in StoryIds : stories[i].userId = userId}

\* C1: every item a feed listing returns is public, not soft-deleted, created
\* strictly before the listing's cursor, and authored by a user who is not
\* banned when the listing is made; so no item of a banned author is listed.
C1_FeedItemsVisible ==
    response.op = "all" =>
        \A k \in 1..Len(response.data) :
            LET row == RowOf(response.data[k])
            IN /\ row.isPublic
               /\ ~row.isDeleted
               /\ row.createdAt < response.beforeDate
               /\ HasUser(row.userId)
               /\ ~users[row.userId].isBanned

\* A listing that returns an item while a banned author has a story that is
\* public, not deleted and older than the cursor.
C1_Witness ==
    /\ response.op = "all"
    /\ Len(response.data) > 0
    /\ \E i \in StoryIds :
          /\ stories[i].isPublic
          /\ ~stories[i].isDeleted
          /\ stories[i].createdAt < response.beforeDate
          /\ HasUser(stories[i].userId)
          /\ users[stories[i].userId].isBanned

\* The flooder has only submitted the one content and none of those rows was
\* edited: the n-th row is the n-th submission.
FloodUntouched ==
    \A i \in RowsBy(Flooder) : stories[i].isPublic /\ stories[i].content = "a"

\* C2: a non-banned author submitting the same valid content again and
\* again: the 1st submission is saved with isDeleted = FALSE and matches the
\* feed query; submissions 2 to 20 are saved with isDeleted = TRUE (the hidden
\* ones count toward the threshold) and do not match the feed query; the 21st
\* sets and saves the ban and saves no story.
C2_FloodOutcome ==
    [][ (/\ Create(Flooder, "a", TRUE, FloodCap)
         /\ ~users[Flooder].isBanned
         /\ FloodUntouched)
        => LET n == Cardinality(RowsBy(Flooder)) + 1
               id == Len(stories) + 1
           IN /\ n <= BAN_THRESHOLD + 1
              /\ n = 1 =>
                    /\ Len(stories') = id
                    /\ stories'[id].userId = Flooder
                    /\ ~stories'[id].isDeleted
                    /\ id \in FeedMatches(now + 1)'
                    /\ users' = users
              /\ (1 < n /\ n <= BAN_THRESHOLD) =>
                    /\ Len(stories') = id
                    /\ stories'[id].userId = Flooder
                    /\ stories'[id].isDeleted
                    /\ id \notin FeedMatches(now + 1)'
                    /\ users' = users
              /\ n = BAN_THRESHOLD + 1 =>
                    /\ users'[Flooder].isBanned
                    /\ stories' = stories
                    /\ response'.id = 0
      ]_vars

\* The 21st submission has just banned the flooder: 20 rows, the first
\* visible, the others hidden.
C2_Witness ==
    /\ users[Flooder].isBanned
    /\ FloodUntouched
    /\ Cardinality(RowsBy(Flooder)) = BAN_THRESHOLD
    /\ Cardinality({i \in RowsBy(Flooder) : stories[i].isDeleted})
           = BAN_THRESHOLD - 1
    /\ response.op = "create" /\ response.caller = Flooder /\ response.id = 0

\* C10: create by an author who is already banned leaves the Story table and
\* the User table as they were and answers 200; the submission that triggers
\* the ban also answers 200 and saves no story.
C10_SilentReject ==
    [][ \A c \in UserIds, t \in Contents :
          (Create(c, t, TRUE, FloodCap) /\ users'[c].isBanned)
          => /\ stories' = stories
             /\ users[c].isBanned => users' = users
             /\ response'.status = 200
             /\ response'.id = 0
      ]_vars

\* A banned author's submission has just been answered 200: only the banned
\* branch answers 200 to an empty content.
C10_Witness ==
    /\ response.op = "create"
    /\ response.caller = Flooder
    /\ response.content = ""
    /\ response.status = 200
    /\ users[Flooder].isBanned

\* The caller has a User row and is the story's author or a superuser.
MayEdit(caller, story) ==
    HasUser(caller) /\ (story.userId = caller \/ users[caller].isSuperuser)

\* C3: edit of an existing story patches it only for a caller whose User row
\* is the story's author or a superuser; for any other caller it answers 403
\* and leaves the stored story unchanged.
C3_EditNeedsOwnerOrSuperuser ==
    [][ \A c \in Callers, id \in StoryIds, b \in Patches :
          (Edit(c, id, b) /\ ~MayEdit(c, stories[id]))
          => response'.status = 403 /\ stories' = stories
      ]_vars

\* C6: no step lowers the stored viewsCount of a story.
C6_ViewsNeverDecrease ==
    [][ \A i \in StoryIds : stories'[i].viewsCount >= stories[i].viewsCount ]_vars

\* The Like rows that reference a story.
LikesOf(id) == [l \in {x \in BagToSet(likes) : x[2] = id} |-> likes[l]]

\* The like calls answered 200 for a story so far.
RECURSIVE SumOver(_, _, _)
SumOver(h, callers, id) ==
    IF callers = {} THEN 0
    ELSE LET c == CHOOSE x \in callers : TRUE
         IN Count(h, <<c, id>>) + SumOver(h, callers \ {c}, id)

LikeCallsOk(id) == SumOver(likeOk, Likers, id)

\* C4: like for a pair that has no Like row, an existing story and an
\* existing user answers 200 and creates the row; like for a pair that has a
\* row answers 409 and creates nothing; and the number of Like rows of a story
\* never exceeds the number of like calls answered 200 for it.
C4_LikeOnce ==
    /\ [](\A id \in StoryIds : BagCardinality(LikesOf(id)) <= LikeCallsOk(id))
    /\ [][ \A c \in Likers, id \in 1..(MaxStories + 1) :
             Like(c, id)
             => IF BagIn(<<c, id>>, likes)
                THEN response'.status = 409 /\ likes' = likes
                ELSE (id \in StoryIds /\ HasUser(c))
                     => /\ response'.status = 200
                        /\ likes' = likes (+) SetToBag({<<c, id>>})
         ]_vars

\* The second of two like calls for a pair has just been answered 409.
C4_Witness ==
    /\ response.op = "like" /\ response.status = 409
    /\ BagIn(<<response.caller, response.id>>, likes)
    /\ Count(likeOk, <<response.caller, response.id>>) = 1

\* C5: dislike fails when the pair has no Like row; after a like answered 200
\* it succeeds and destroys the row, and a dislike that follows it with no
\* like in between fails: the dislike calls answered 200 for a pair never
\* outnumber the like calls answered 200 for it.
C5_UnlikeOncePerLike ==
    /\ [](\A p \in DOMAIN unlikeOk : unlikeOk[p] <= Count(likeOk, p))
    /\ [][ \A c \in Likers, id \in 1..(MaxStories + 1) :
             (Dislike(c, id) /\ ~BagIn(<<c, id>>, likes))
             => response'.status # 200 /\ likes' = likes
         ]_vars

\* C7: the stored likesCount of every story equals the number of Like rows
\* that reference it.
C7_LikesCountMatches ==
    \A id \in StoryIds : stories[id].likesCount = BagCardinality(LikesOf(id))

\* The offset a listing applied, 0 when none was sent.
SkipOr0(r) == IF r.skip = Absent THEN 0 ELSE r.skip[1]

\* C8: in a feed response hasMore is true exactly when the count exceeds the
\* applied offset (0 when absent) plus the applied page size (10 when the
\* limit is absent or invalid).  Stated for the listings whose applied page
\* size is a page size, 1..50.
C8_HasMore ==
    (response.op = "all" /\ response.take \in 1..50) =>
        (response.hasMore <=> response.count > SkipOr0(response) + response.take)

\* C9: the page size applied to the page query lies in 1..50, and is 10 when
\* the limit is absent or not in 1..50.
C9_LimitClamped ==
    response.op = "all" =>
        /\ response.take \in 1..50
        /\ (response.limit = Absent \/ response.limit[1] \notin 1..50)
               => response.take = DEFAULT_LIMIT

C12_SavedOnlyIfValid ==
    [][ \A c \in Callers, t \in Contents, r \in BOOLEAN :
          Create(c, t, r, MaxStories)
          => /\ Len(stories') > Len(stories) => Valid(t)
             /\ ~Valid(t) => response'.status = 400 /\ stories' = stories
      ]_vars

\* The Like rows of a pair.
LikeRows(c, id) == CopiesIn(<<c, id>>, likes)

\* Two like calls for the same pair, both past their pre-check.
SamePairLikes ==
    /\ calls[1].op = "like" /\ calls[2].op = "like"
    /\ calls[1].caller = calls[2].caller
    /\ calls[1].id = calls[2].id

\* C13: two like calls in flight for the same pair, their pre-checks and
\* inserts interleaved in any way: the Like table never holds more than one
\* row for a pair, and at most one of the two calls is answered 200.
C13_LikeRace ==
    /\ \A c \in Likers, id \in 1..(MaxStories + 1) : LikeRows(c, id) <= 1
    /\ SamePairLikes => ~(calls[1].status = 200 /\ calls[2].status = 200)

\* Both calls passed the pre-check before either inserted: one was answered
\* 200, the store rejected the insert of the other.
C13_Witness ==
    /\ SamePairLikes
    /\ calls[1].exist = 0 /\ calls[2].exist = 0
    /\ calls[1].id \in StoryIds /\ HasUser(calls[1].caller)
    /\ {calls[1].status, calls[2].status} = {200, 500}
    /\ LikeRows(calls[1].caller, calls[1].id) = 1

\* The row a create call saved.
SavedBy(k) == stories[calls[k].id]

\* C14: the duplicate count is read in one store access and the story saved
\* in a later one: whatever is saved in between, an author's story is saved
\* hidden exactly when the count its call observed was 1..19.  So two calls
\* of one author with one content that observe the same count are saved in
\* the same visibility class (C14_Witness is such an interleaving).
C14_DecisionOnObservedCount ==
    /\ [][ \A k \in CallIds :
             (CreateSave(k, TRUE, MaxStories + 2) /\ calls[k].caller # NoUser
                /\ Len(stories') > Len(stories))
             => stories'[Len(stories')].isDeleted
                   = (calls[k].exist \in 1..(BAN_THRESHOLD - 1))
         ]_vars
    /\ []( (/\ calls[1].op = "create" /\ calls[2].op = "create"
            /\ calls[1].caller = calls[2].caller /\ calls[1].caller # NoUser
            /\ calls[1].content = calls[2].content
            /\ calls[1].exist = calls[2].exist
            /\ calls[1].id \in StoryIds /\ calls[2].id \in StoryIds)
           => SavedBy(1).isDeleted = SavedBy(2).isDeleted )

\* Both calls of the author observed no duplicate and both stories are
\* saved visible: two submissions were made, the guard counted none.
C14_Witness ==
    /\ calls[1].op = "create" /\ calls[2].op = "create"
    /\ calls[1].caller = "u1" /\ calls[2].caller = "u1"
    /\ calls[1].content = calls[2].content
    /\ calls[1].status = 200 /\ calls[2].status = 200
    /\ calls[1].exist = 0 /\ calls[2].exist = 0
    /\ calls[1].id # calls[2].id
    /\ ~SavedBy(1).isDeleted /\ ~SavedBy(2).isDeleted
    /\ ~users["u1"].isBanned

\* C15: the postcard handler, when it has run to its end, has sent exactly
\* one response: for an existing id the story with its views counted once
\* more (200), for an unknown id 404 with nothing written.  (status 0 is a
\* handler that returned without sending.)
C15_PostcardAnswered ==
    [][ \A id \in 1..(MaxStories + 1) :
          Postcard(id)
          => IF id \in StoryIds
             THEN /\ response'.status = 200
                  /\ ViewsWrite(id, stories[id].viewsCount + 1) \in pending'
             ELSE /\ response'.status = 404
                  /\ stories' = stories /\ pending' = pending
      ]_vars

\* Item a is not after item b when sorting by the keys in the order given,
\* each descending, a later key breaking the ties of the earlier ones.
RECURSIVE NotAfter(_, _, _)
NotAfter(a, b, keys) ==
    \/ keys = <<>>
    \/ a[Head(keys)] > b[Head(keys)]
    \/ a[Head(keys)] = b[Head(keys)] /\ NotAfter(a, b, Tail(keys))

\* C16: the items of a listing are sorted by all the order keys sent, in the
\* order given, each descending; by createdAt descending when none is sent.
C16_SortedByAllKeys ==
    (response.op = "all" /\ response.orderBy # <<"RAND()">>) =>
        LET keys == IF response.orderBy = Absent THEN <<"createdAt">>
                    ELSE response.orderBy
        IN \A i, j \in 1..Len(response.data) :
              i < j => NotAfter(response.data[i], response.data[j], keys)

\* C17: an item sent to a caller without the superuser flag carries no
\* column of its author.  all does not read req.user, so every listing is
\* also the listing such a caller gets; one is routed without passport, so
\* its caller never carries the flag.
C17_NoAuthorFieldsForOthers ==
    /\ response.op = "all" =>
           \A k \in 1..Len(response.data) :
              "user" \notin DOMAIN response.data[k]
    /\ (response.op = "one" /\ response.status = 200) =>
           response.body.user = Absent

\* C18: violation on an existing story answers 200 and appends exactly one
\* row for it, for a caller with or without an identity and whatever rows
\* the table holds; on an id without a story it answers 404 and appends
\* nothing.
C18_ViolationOutcome ==
    [][ \A c \in Callers, id \in 1..(MaxStories + 1) :
          Violation(c, id)
          => IF id \in StoryIds
             THEN /\ response'.status = 200
                  /\ Len(violations') = Len(violations) + 1
                  /\ SubSeq(violations', 1, Len(violations)) = violations
                  /\ violations'[Len(violations')].storyId = id
             ELSE /\ response'.status = 404
                  /\ violations' = violations
      ]_vars

\* C19: the isOwner middleware ends each request in exactly one way: it
\* calls next() and sends nothing, which it does only for an object that
\* exists and whose user is the caller, or it sends 401 once and does not
\* call next(); also when the lookup of the object fails.
C19_OneOutcome ==
    response.op = "isOwner" =>
        /\ response.next => /\ response.sends = 0
                            /\ response.id \in StoryIds
                            /\ stories[response.id].userId = response.caller
        /\ ~response.next => response.sends = 1

\* A story saved by create without an author.
Anonymous(i) == stories[i].userId = NoUser

\* C20: a story created without an author matches the feed query under no
\* cursor, and no listing returns it, though it is public, not deleted and
\* older than the cursor: the query inner-joins the author.
C20_AnonymousNeverListed ==
    /\ \A i \in StoryIds :
          Anonymous(i) => \A d \in 0..(MaxTime + 1) : i \notin FeedMatches(d)
    /\ response.op = "all" =>
          \A k \in 1..Len(response.data) : ~Anonymous(response.data[k].id)

\* A listing has returned a story while an anonymous story is public, not
\* deleted and older than the cursor.
C20_Witness ==
    /\ response.op = "all"
    /\ Len(response.data) > 0
    /\ \E i \in StoryIds :
          /\ Anonymous(i)
          /\ stories[i].isPublic /\ ~stories[i].isDeleted
          /\ stories[i].createdAt < response.beforeDate

====
